---- MODULE Spec2Model ----
(***************************************************************************)
(* Chat session state (useChat), the send-message orchestration of App and *)
(* the query client (sendQueryToAPI) of the client-support UI.             *)
(*                                                                         *)
(* A Date is [ms |-> t]; its JSON form, an ISO string, is [iso |-> t].  The *)
(* decimal string of a number n (Date.now().toString()) is [digits |-> n]. *)
(* Every event handler runs to completion on the state of the latest       *)
(* render; the continuation of sendMessage after its await runs on the     *)
(* values its closure captured when sendMessage was invoked.  Date.now()  *)
(* is the wall clock in milliseconds: successive events can read the same  *)
(* value.  The notice (toast), theme, sidebar and settings state of App    *)
(* are not modelled.                                                       *)
(***************************************************************************)
EXTENDS Integers, Sequences, FiniteSets, TLC

VARIABLES
  chatHistories,  \* useChat: ChatHistory[]
  currentChatId,  \* useChat: string | null
  messages,       \* useChat: Message[], the transient buffer
  stored,         \* localStorage value under the key chatHistories
  inputValue,     \* App: text of the input box
  isLoading,      \* App: the busy flag
  inflight,       \* sendMessage invocations suspended at their await
  now,            \* the reading of Date.now()
  sends,          \* history variable: the number of sends accepted so far
  requests,       \* history variable: the number of fetch calls issued so far
  lastOp          \* history variable: the session or exchange operation that ran last

vars == <<chatHistories, currentChatId, messages, stored, inputValue,
          isLoading, inflight, now, sends, requests, lastOp>>

\* the program state alone (without the history variable and the clock)
progVars == <<chatHistories, currentChatId, messages, stored, inputValue,
              isLoading, inflight>>

----------------------------------------------------------------------------
\* Bounds of the model

MaxTime == 1    \* Date.now() reads 0..MaxTime
MaxSends == 3   \* sends accepted in one behaviour

\* Program constant: title = userMessage.content.slice(0, 50)
TitleLen == 50

\* null, as the value of currentChatId (ids are [digits |-> n])
Null == [null |-> TRUE]

----------------------------------------------------------------------------
\* Text

Whitespace == {" "}

RECURSIVE trimStart(_)
trimStart(s) ==
  IF s = "" THEN ""
  ELSE IF Head(s) \in Whitespace THEN trimStart(Tail(s)) ELSE s

RECURSIVE trimEnd(_)
trimEnd(s) ==
  IF s = "" THEN ""
  ELSE IF SubSeq(s, Len(s), Len(s)) \in Whitespace
       THEN trimEnd(SubSeq(s, 1, Len(s) - 1)) ELSE s

\* String.prototype.trim
trim(s) == trimEnd(trimStart(s))

\* String.prototype.slice(0, n)
slice(s, n) == SubSeq(s, 1, IF Len(s) < n THEN Len(s) ELSE n)

TenChars == "0123456789"

\* a text of 51 characters
LongText == TenChars \o TenChars \o TenChars \o TenChars \o TenChars \o "X"

\* what the user can type into the input box
Inputs == { " ", LongText }

----------------------------------------------------------------------------
\* Dates, ids and JSON

Date(t) == [ms |-> t]

\* Number.prototype.toString
NumToString(n) == [digits |-> n]

\* a date format that drops the milliseconds
toISOString_noMillis(d) == [iso |-> 0]

\* Date.prototype.toISOString, as JSON.stringify applies it through toJSON
toISOString(d) == [iso |-> d.ms]

\* new Date(value) for a Date or an ISO string
NewDate(v) == IF "iso" \in DOMAIN v THEN [ms |-> v.iso] ELSE [ms |-> v.ms]

StringifyMessage(m) == [m EXCEPT !.timestamp = toISOString(@)]

StringifyChat(c) ==
  [id |-> c.id, title |-> c.title,
   messages |-> [j \in 1..Len(c.messages) |-> StringifyMessage(c.messages[j])],
   lastUpdated |-> toISOString(c.lastUpdated)]

\* JSON.stringify(chatHistories)
JSONstringify(h) == [i \in 1..Len(h) |-> StringifyChat(h[i])]

ReviveMessage(m) == [m EXCEPT !.timestamp = NewDate(@)]

ReviveChat(c) ==
  [id |-> c.id, title |-> c.title,
   messages |-> [j \in 1..Len(c.messages) |-> ReviveMessage(c.messages[j])],
   lastUpdated |-> NewDate(c.lastUpdated)]

\* JSON.parse(stored, reviver): the keys timestamp and lastUpdated become Dates
JSONparse(text) == [i \in 1..Len(text) |-> ReviveChat(text[i])]

----------------------------------------------------------------------------
\* Sequences

IsPrefix(p, s) == Len(p) <= Len(s) /\ SubSeq(s, 1, Len(p)) = p

ChatIds(h) == { h[i].id : i \in 1..Len(h) }

\* Array.prototype.find(c => c.id === chatId): the first match
FindChat(h, chatId) ==
  LET hits == { i \in 1..Len(h) : h[i].id = chatId }
  IN  h[CHOOSE i \in hits : \A j \in hits : i <= j]

----------------------------------------------------------------------------
\* Query client

\* what the remote endpoint can answer with status 2xx
ServerResponses ==
  { [response |-> "Hi there!"] }

FallbackResponse == "Sorry, I could not process your request."

\* the object sendQueryToAPI returns for the body `data`: a || default per field
Normalize(data, t) ==
  [intent |-> IF "intent" \in DOMAIN data /\ data.intent # ""
              THEN data.intent ELSE "general_query",
   confidence |-> IF "confidence" \in DOMAIN data /\ data.confidence # 0
                  THEN data.confidence ELSE 0,
   response |-> IF "response" \in DOMAIN data /\ data.response # ""
                THEN data.response ELSE FallbackResponse,
   sources |-> IF "sources" \in DOMAIN data THEN data.sources ELSE <<>>,
   action_invoked |-> IF "action_invoked" \in DOMAIN data /\ data.action_invoked # ""
                      THEN data.action_invoked ELSE "null",
   timestamp |-> IF "timestamp" \in DOMAIN data
                 THEN data.timestamp ELSE toISOString(Date(t))]

----------------------------------------------------------------------------
\* Messages

UserMessage(text, t) ==
  [id |-> NumToString(t), role |-> "user", content |-> text, timestamp |-> Date(t)]

AssistantMessage(data, t) ==
  [id |-> NumToString(t + 1), role |-> "assistant", content |-> data.response,
   intent |-> data.intent, confidence |-> data.confidence,
   sources |-> data.sources, timestamp |-> Date(t)]

----------------------------------------------------------------------------
\* useChat: the state updates of each operation

\* an addMessage that puts the message in front
addMessage_prepend(prev, message) == <<message>> \o prev

\* addMessage: setMessages(prev => [...prev, message])
addMessage(prev, message) == Append(prev, message)

\* loadChat: the copy of the chat's messages put into the buffer
LoadedMessages(chat) ==
  [j \in 1..Len(chat.messages) |-> ReviveMessage(chat.messages[j])]

\* a filter with the test inverted
RemoveChat_inverted(prev, chatId) == SelectSeq(prev, LAMBDA chat : chat.id = chatId)

\* deleteChat: setChatHistories(prev => prev.filter(chat => chat.id !== chatId))
RemoveChat(prev, chatId) == SelectSeq(prev, LAMBDA chat : chat.id # chatId)

\* updateChatHistory: newMessages, from the messages of the render that
\* created the function
NewMessages(closureMessages, userMessage, assistantMessage) ==
  closureMessages \o <<userMessage, assistantMessage>>

\* a map that refreshes lastUpdated of every chat
ReplaceMessages_touchesAll(prev, chatId, newMessages, t) ==
  [i \in 1..Len(prev) |->
     IF prev[i].id = chatId
     THEN [prev[i] EXCEPT !.messages = newMessages, !.lastUpdated = Date(t)]
     ELSE [prev[i] EXCEPT !.lastUpdated = Date(t)]]

\* updateChatHistory, active chat: prev.map(chat => chat.id === currentChatId ? ... : chat)
ReplaceMessages(prev, chatId, newMessages, t) ==
  [i \in 1..Len(prev) |->
     IF prev[i].id = chatId
     THEN [prev[i] EXCEPT !.messages = newMessages, !.lastUpdated = Date(t)]
     ELSE prev[i]]

\* a new ChatHistory titled with the whole content
NewChat_fullTitle(userMessage, newMessages, t) ==
  [id |-> NumToString(t), title |-> userMessage.content,
   messages |-> newMessages, lastUpdated |-> Date(t)]

\* updateChatHistory, no active chat: the new ChatHistory
NewChat(userMessage, newMessages, t) ==
  [id |-> NumToString(t), title |-> slice(userMessage.content, TitleLen),
   messages |-> newMessages, lastUpdated |-> Date(t)]

\* updateChatHistory: the histories collection it leaves
UpdatedHistories(prev, closureChatId, closureMessages, userMessage, assistantMessage, t) ==
  LET newMessages == NewMessages(closureMessages, userMessage, assistantMessage)
  IN  IF closureChatId # Null
      THEN ReplaceMessages(prev, closureChatId, newMessages, t)
      ELSE <<NewChat(userMessage, newMessages, t)>> \o prev

\* updateChatHistory: the active chat it leaves
UpdatedChatId(cur, closureChatId, t) ==
  IF closureChatId # Null THEN cur ELSE NumToString(t)

\* sendMessage, catch: setMessages(prev => prev.filter(msg => msg.id !== userMessage.id))
RemoveMessage(prev, userMessage) ==
  SelectSeq(prev, LAMBDA msg : msg.id # userMessage.id)

\* a guard that lets a send through while an exchange is in flight
SendRejected_noBusyCheck(input, loading) == trim(input) = "" /\ ~loading

\* sendMessage: if (!inputValue.trim() || isLoading) return
SendRejected(input, loading) == trim(input) = "" \/ loading

----------------------------------------------------------------------------
\* Initial state: first visit, after the mount effects have run

Init ==
  /\ chatHistories = <<>>
  /\ currentChatId = Null
  /\ messages = <<>>
  /\ stored = JSONstringify(<<>>)
  /\ inputValue = ""
  /\ isLoading = FALSE
  /\ inflight = {}
  /\ now = 0
  /\ sends = 0
  /\ requests = 0
  /\ lastOp = [op |-> "init"]

----------------------------------------------------------------------------
\* Events

\* the clock advances
Tick ==
  /\ now < MaxTime
  /\ now' = now + 1
  /\ UNCHANGED <<progVars, sends, requests, lastOp>>

\* ChatInput onChange; the input box is disabled while isLoading
setInputValue(v) ==
  /\ ~isLoading
  /\ inputValue' = v
  /\ UNCHANGED <<chatHistories, currentChatId, messages, stored, isLoading,
                 inflight, now, sends, requests, lastOp>>

\* App.sendMessage up to its await
sendMessage ==
  IF SendRejected(inputValue, isLoading)
  THEN /\ lastOp' = [op |-> "sendMessage", accepted |-> FALSE]
       /\ UNCHANGED <<progVars, now, sends, requests>>
  ELSE LET userMessage == UserMessage(inputValue, now)
       IN  /\ sends < MaxSends
           /\ sends' = sends + 1
           /\ requests' = requests + 1
           /\ messages' = addMessage(messages, userMessage)
           /\ inputValue' = ""
           /\ isLoading' = TRUE
           /\ inflight' = inflight \cup
                {[userMessage |-> userMessage, query |-> inputValue,
                  messages |-> messages, currentChatId |-> currentChatId]}
           /\ lastOp' = [op |-> "sendMessage", accepted |-> TRUE]
           /\ UNCHANGED <<chatHistories, currentChatId, stored, now>>

\* the request of exchange r settles with a 2xx answer: sendMessage from its
\* await to the end of try and finally
Succeed(r, data) ==
  LET normalized == Normalize(data, now)
      assistantMessage == AssistantMessage(normalized, now)
  IN  /\ r \in inflight
      /\ messages' = addMessage(messages, assistantMessage)
      /\ chatHistories' = UpdatedHistories(chatHistories, r.currentChatId, r.messages,
                                           r.userMessage, assistantMessage, now)
      /\ currentChatId' = UpdatedChatId(currentChatId, r.currentChatId, now)
      /\ stored' = JSONstringify(chatHistories')
      /\ isLoading' = FALSE
      /\ inflight' = inflight \ {r}
      /\ lastOp' = [op |-> "succeed", created |-> r.currentChatId = Null]
      /\ UNCHANGED <<inputValue, now, sends, requests>>

\* a catch block that saves the unanswered user message as a chat
Fail_persists(r) ==
  /\ r \in inflight
  /\ messages' = RemoveMessage(messages, r.userMessage)
  /\ chatHistories' = <<NewChat(r.userMessage, Append(r.messages, r.userMessage), now)>>
                         \o chatHistories
  /\ stored' = JSONstringify(chatHistories')
  /\ isLoading' = FALSE
  /\ inflight' = inflight \ {r}
  /\ lastOp' = [op |-> "fail"]
  /\ UNCHANGED <<currentChatId, inputValue, now, sends, requests>>

\* a catch block that issues the request once more and drops its result
Fail_retries(r) ==
  /\ r \in inflight
  /\ requests' = requests + 1
  /\ messages' = RemoveMessage(messages, r.userMessage)
  /\ isLoading' = FALSE
  /\ inflight' = inflight \ {r}
  /\ lastOp' = [op |-> "fail"]
  /\ UNCHANGED <<chatHistories, currentChatId, stored, inputValue, now, sends>>

\* a failure path without the finally block
Fail_staysBusy(r) ==
  /\ r \in inflight
  /\ messages' = RemoveMessage(messages, r.userMessage)
  /\ inflight' = inflight \ {r}
  /\ lastOp' = [op |-> "fail"]
  /\ UNCHANGED <<chatHistories, currentChatId, stored, inputValue, isLoading,
                 now, sends, requests>>

\* the request of exchange r fails (network failure, non-2xx status, malformed
\* JSON): sendMessage from its await through catch and finally
Fail(r) ==
  /\ r \in inflight
  /\ messages' = RemoveMessage(messages, r.userMessage)
  /\ isLoading' = FALSE
  /\ inflight' = inflight \ {r}
  /\ lastOp' = [op |-> "fail"]
  /\ UNCHANGED <<chatHistories, currentChatId, stored, inputValue, now, sends, requests>>

\* a startNewChat that forgets setCurrentChatId(null)
startNewChat_keepsActive ==
  /\ messages' = <<>>
  /\ lastOp' = [op |-> "startNewChat", again |-> lastOp.op = "startNewChat"]
  /\ UNCHANGED <<chatHistories, currentChatId, stored, inputValue, isLoading,
                 inflight, now, sends, requests>>

\* App.handleNewChat: useChat.startNewChat
startNewChat ==
  /\ messages' = <<>>
  /\ currentChatId' = Null
  /\ lastOp' = [op |-> "startNewChat", again |-> lastOp.op = "startNewChat"]
  /\ UNCHANGED <<chatHistories, stored, inputValue, isLoading, inflight, now, sends, requests>>

\* a loadChat that does not test whether the chat was found
loadChat_unchecked(chatId) ==
  /\ messages' = (IF chatId \in ChatIds(chatHistories)
                  THEN LoadedMessages(FindChat(chatHistories, chatId)) ELSE <<>>)
  /\ currentChatId' = chatId
  /\ lastOp' = [op |-> "loadChat", chatId |-> chatId,
                found |-> chatId \in ChatIds(chatHistories)]
  /\ UNCHANGED <<chatHistories, stored, inputValue, isLoading, inflight, now, sends, requests>>

\* useChat.loadChat
loadChat(chatId) ==
  /\ IF chatId \in ChatIds(chatHistories)
     THEN /\ messages' = LoadedMessages(FindChat(chatHistories, chatId))
          /\ currentChatId' = chatId
     ELSE UNCHANGED <<messages, currentChatId>>
  /\ lastOp' = [op |-> "loadChat", chatId |-> chatId,
                found |-> chatId \in ChatIds(chatHistories)]
  /\ UNCHANGED <<chatHistories, stored, inputValue, isLoading, inflight, now, sends, requests>>

\* App.handleDeleteChat, confirmed by the user: useChat.deleteChat
deleteChat(chatId) ==
  /\ chatHistories' = RemoveChat(chatHistories, chatId)
  /\ stored' = JSONstringify(chatHistories')
  /\ IF currentChatId = chatId
     THEN messages' = <<>> /\ currentChatId' = Null
     ELSE UNCHANGED <<messages, currentChatId>>
  /\ lastOp' = [op |-> "deleteChat", chatId |-> chatId,
                found |-> chatId \in ChatIds(chatHistories),
                active |-> currentChatId = chatId]
  /\ UNCHANGED <<inputValue, isLoading, inflight, now, sends, requests>>

\* App.handleClearHistory, confirmed by the user: useChat.clearHistory
clearHistory ==
  /\ chatHistories' = <<>>
  /\ stored' = JSONstringify(chatHistories')
  /\ messages' = <<>>
  /\ currentChatId' = Null
  /\ lastOp' = [op |-> "clearHistory"]
  /\ UNCHANGED <<inputValue, isLoading, inflight, now, sends, requests>>

\* the page is reloaded: every useState initializer runs again, pending
\* continuations are gone
Reload ==
  /\ chatHistories' = JSONparse(stored)
  /\ stored' = JSONstringify(chatHistories')
  /\ currentChatId' = Null
  /\ messages' = <<>>
  /\ inputValue' = ""
  /\ isLoading' = FALSE
  /\ inflight' = {}
  /\ lastOp' = [op |-> "reload"]
  /\ UNCHANGED <<now, sends, requests>>

\* ids an operation can be called with: those of the listed chats, and one
\* that no chat has
UnknownId == NumToString(MaxTime + 1)

CallIds == ChatIds(chatHistories) \cup {UnknownId}

Next ==
  \/ Tick
  \/ \E v \in Inputs : setInputValue(v)
  \/ sendMessage
  \/ \E r \in inflight : \E data \in ServerResponses : Succeed(r, data)
  \/ \E r \in inflight : Fail(r)
  \/ startNewChat
  \/ \E chatId \in CallIds : loadChat(chatId)
  \/ \E chatId \in CallIds : deleteChat(chatId)
  \/ clearHistory
  \/ Reload

Spec == Init /\ [][Next]_vars

----------------------------------------------------------------------------
\* Claims

Last(s) == s[Len(s)]

\* C1: at most one exchange is in flight at any time, and a sendMessage
\* invocation made while isLoading is set issues no request and adds no
\* user message to the buffer.
C1_SingleInFlight ==
  [][ /\ Cardinality(inflight') <= 1
      /\ (isLoading /\ sendMessage) => UNCHANGED <<messages, inflight, sends>>
    ]_vars

\* C1 witness: sendMessage has been invoked and rejected while an exchange
\* is in flight.
C1_Witness ==
  /\ lastOp = [op |-> "sendMessage", accepted |-> FALSE]
  /\ isLoading
  /\ Cardinality(inflight) = 1

\* C2: when the request of an exchange fails and the buffer is the buffer
\* of before the attempt plus the optimistic user message, the buffer after
\* the failure is exactly the buffer of before the attempt.
C2_ExactRollback ==
  [][ \A r \in inflight :
        (Fail(r) /\ messages = Append(r.messages, r.userMessage))
          => messages' = r.messages
    ]_vars

\* C3: an exchange that ends in failure leaves the histories collection,
\* the stored chatHistories value and currentChatId as they were, from the
\* invocation of sendMessage through the failure of its request.
C3_FailureTouchesNothingPersisted ==
  [][ (sendMessage \/ \E r \in inflight : Fail(r))
        => UNCHANGED <<chatHistories, stored, currentChatId>>
    ]_vars

\* C3 witness: an exchange sent from an active chat has failed, with
\* persisted histories present.
C3_Witness ==
  /\ lastOp = [op |-> "fail"]
  /\ chatHistories # <<>>
  /\ currentChatId # Null
  /\ ~isLoading

\* the indices of the chats with the given id
IndicesOf(h, chatId) == { i \in 1..Len(h) : h[i].id = chatId }

\* C4: when an exchange succeeds, the session that is active when the
\* response arrives (a new one if none is active) is active afterwards,
\* exists, ends with the user/assistant pair of the exchange, and is stored.
C4_CommitToActiveSession ==
  [][ \A r \in inflight : \A data \in ServerResponses :
        Succeed(r, data) =>
          /\ currentChatId' # Null
          /\ currentChatId # Null => currentChatId' = currentChatId
          /\ \E i \in IndicesOf(chatHistories', currentChatId') :
               LET saved == chatHistories'[i].messages
               IN  /\ Len(saved) >= 2
                   /\ saved[Len(saved) - 1] = r.userMessage
                   /\ saved[Len(saved)] = Last(messages')
          /\ stored' = JSONstringify(chatHistories')
    ]_vars

\* C5: whenever a chat is active, the buffer equals the messages of the
\* active ChatHistory when no exchange is in flight, and has them as a
\* prefix while one is.
C5_BufferPrefixConsistent ==
  currentChatId # Null =>
    /\ currentChatId \in ChatIds(chatHistories)
    /\ LET saved == FindChat(chatHistories, currentChatId).messages
       IN  IF inflight = {} THEN messages = saved ELSE IsPrefix(saved, messages)

\* C6: updateChatHistory, run in a render that has no active chat, puts
\* exactly one new ChatHistory in front of the unchanged existing ones; its
\* title is the first 50 characters of the user message's content, its
\* messages are the messages of that render followed by the user and the
\* assistant message, and it becomes the active chat.
C6_CreatesOneChat ==
  [][ \A r \in inflight : \A data \in ServerResponses :
        (Succeed(r, data) /\ r.currentChatId = Null) =>
          /\ Len(chatHistories') = Len(chatHistories) + 1
          /\ Tail(chatHistories') = chatHistories
          /\ LET created == Head(chatHistories')
                 content == r.userMessage.content
             IN  /\ Len(created.title) = (IF Len(content) < 50 THEN Len(content) ELSE 50)
                 /\ SubSeq(content, 1, Len(created.title)) = created.title
                 /\ created.messages = r.messages \o <<r.userMessage, Last(messages')>>
                 /\ Last(created.messages).role = "assistant"
                 /\ currentChatId' = created.id
    ]_vars

\* C6 witness: a chat has been created next to an existing one, from a user
\* message longer than 50 characters.
C6_Witness ==
  /\ lastOp = [op |-> "succeed", created |-> TRUE]
  /\ Len(chatHistories) >= 2
  /\ Len(Head(chatHistories).messages[Len(Head(chatHistories).messages) - 1].content) > 50
  /\ currentChatId = Head(chatHistories).id

\* C7: updateChatHistory, run in a render that has an active chat, keeps the
\* size of the histories collection, changes nothing but the messages and
\* lastUpdated of the entries that have the active chat's id, and leaves
\* currentChatId alone.
C7_UpdatesOnlyTarget ==
  [][ \A r \in inflight : \A data \in ServerResponses :
        (Succeed(r, data) /\ r.currentChatId # Null) =>
          /\ Len(chatHistories') = Len(chatHistories)
          /\ \A i \in 1..Len(chatHistories) :
               /\ chatHistories'[i].id = chatHistories[i].id
               /\ chatHistories'[i].title = chatHistories[i].title
               /\ chatHistories[i].id # r.currentChatId
                    => chatHistories'[i] = chatHistories[i]
               /\ chatHistories[i].id = r.currentChatId
                    => /\ chatHistories'[i].messages
                            = r.messages \o <<r.userMessage, Last(messages')>>
                       /\ chatHistories'[i].lastUpdated = [ms |-> now]
          /\ currentChatId' = currentChatId
    ]_vars

\* C7 witness: an existing chat has been rewritten while another chat, with
\* another id, is in the collection.
C7_Witness ==
  /\ lastOp = [op |-> "succeed", created |-> FALSE]
  /\ currentChatId # Null
  /\ Cardinality(ChatIds(chatHistories)) >= 2
  /\ Len(FindChat(chatHistories, currentChatId).messages) >= 4

\* C8: currentChatId is none or the id of exactly one ChatHistory of the
\* histories collection.
C8_ActiveIsUnique ==
  currentChatId # Null => Cardinality(IndicesOf(chatHistories, currentChatId)) = 1

\* the i-th of the chats that do not have the given id, in list order
KeptChat(h, chatId, k) ==
  LET keep == { i \in 1..Len(h) : h[i].id # chatId }
  IN  h[CHOOSE i \in keep : Cardinality({ j \in keep : j <= i }) = k]

\* C9: deleteChat(id) removes the ChatHistory with that id and keeps every
\* other one, unchanged and in the same order; the buffer is emptied and
\* currentChatId set to none if id was the active chat and both are
\* unchanged otherwise; with no ChatHistory of that id nothing changes.
C9_DeleteChat ==
  [][ \A chatId \in CallIds :
        deleteChat(chatId) =>
          /\ Len(chatHistories')
               = Cardinality({ i \in 1..Len(chatHistories) : chatHistories[i].id # chatId })
          /\ \A k \in 1..Len(chatHistories') :
               chatHistories'[k] = KeptChat(chatHistories, chatId, k)
          /\ stored' = JSONstringify(chatHistories')
          /\ IF currentChatId = chatId
             THEN messages' = <<>> /\ currentChatId' = Null
             ELSE UNCHANGED <<messages, currentChatId>>
          /\ chatId \notin ChatIds(chatHistories) => UNCHANGED progVars
    ]_vars

\* C9 witness: the active chat has been deleted from a collection in which
\* another chat stays.
C9_Witness ==
  /\ lastOp.op = "deleteChat"
  /\ lastOp.found /\ lastOp.active
  /\ chatHistories # <<>>
  /\ messages = <<>> /\ currentChatId = Null

\* C10: loadChat(id) with an id that no ChatHistory has changes neither the
\* buffer nor currentChatId nor the histories collection; with an existing
\* id it puts that chat's messages into the buffer and makes it the active
\* chat, and leaves the histories collection unchanged.
C10_LoadChat ==
  [][ \A chatId \in CallIds :
        loadChat(chatId) =>
          /\ UNCHANGED <<chatHistories, stored>>
          /\ IF IndicesOf(chatHistories, chatId) = {}
             THEN UNCHANGED <<messages, currentChatId>>
             ELSE /\ \E i \in IndicesOf(chatHistories, chatId) :
                       messages' = chatHistories[i].messages
                  /\ currentChatId' = chatId
    ]_vars

\* C10 witness: a chat other than the one shown has been loaded.
C10_Witness ==
  /\ lastOp.op = "loadChat"
  /\ lastOp.found
  /\ currentChatId = lastOp.chatId
  /\ Len(chatHistories) >= 2
  /\ messages # <<>>

\* C10 witness, unknown id: loadChat has run with an id that no chat has,
\* while a chat is shown.
C10_WitnessUnknown ==
  /\ lastOp.op = "loadChat"
  /\ ~lastOp.found
  /\ currentChatId # Null
  /\ messages # <<>>

\* C11: startNewChat empties the buffer, sets currentChatId to none and
\* leaves the histories collection and its stored value unchanged; applied
\* to the state it leaves, it changes nothing.
C11_StartNewChat ==
  [][ startNewChat =>
        /\ messages' = <<>>
        /\ currentChatId' = Null
        /\ UNCHANGED <<chatHistories, stored>>
        /\ (messages = <<>> /\ currentChatId = Null) => UNCHANGED progVars
    ]_vars

\* C11 witness: startNewChat has run twice in a row, with chats persisted.
C11_Witness ==
  /\ lastOp = [op |-> "startNewChat", again |-> TRUE]
  /\ chatHistories # <<>>
  /\ messages = <<>> /\ currentChatId = Null


----------------------------------------------------------------------------
\* addMessage on its own: sequences of calls from an empty buffer

MaxCalls == 3

\* the messages passed to addMessage
PassedMessages ==
  { UserMessage(LongText, 0), UserMessage("hi", 1),
    AssistantMessage(Normalize([response |-> "Hi there!"], 0), 0) }

\* a persisted chat the calls must leave alone
StoredChat ==
  NewChat(UserMessage(LongText, 0),
          <<UserMessage(LongText, 0),
            AssistantMessage(Normalize([response |-> "Hi there!"], 0), 0)>>, 0)

InitAddMessage ==
  /\ chatHistories \in { <<>>, <<StoredChat>> }
  /\ currentChatId \in { Null } \cup ChatIds(chatHistories)
  /\ messages = <<>>
  /\ stored = JSONstringify(chatHistories)
  /\ inputValue = ""
  /\ isLoading = FALSE
  /\ inflight = {}
  /\ now = 0
  /\ sends = 0
  /\ requests = 0
  /\ lastOp = [op |-> "addMessage", passed |-> <<>>]

\* one call of useChat.addMessage; lastOp.passed lists the arguments so far
addMessageCall(message) ==
  /\ Len(lastOp.passed) < MaxCalls
  /\ messages' = addMessage(messages, message)
  /\ lastOp' = [op |-> "addMessage", passed |-> Append(lastOp.passed, message)]
  /\ UNCHANGED <<chatHistories, currentChatId, stored, inputValue, isLoading,
                 inflight, now, sends, requests>>

NextAddMessage == \E message \in PassedMessages : addMessageCall(message)

SpecAddMessage == InitAddMessage /\ [][NextAddMessage]_vars

\* C12: after any sequence of addMessage calls from an empty buffer, the
\* buffer is exactly the sequence of messages passed, in call order (so its
\* length is the number of calls), and no call changes the histories
\* collection, its stored value or currentChatId.
C12_AddMessageSequences ==
  /\ [](messages = lastOp.passed)
  /\ [][UNCHANGED <<chatHistories, currentChatId, stored>>]_vars

\* C12 witness: three calls with different messages, beside a persisted chat.
C12_Witness ==
  /\ Len(lastOp.passed) = 3
  /\ messages[1] # messages[2] /\ messages[2] # messages[3]
  /\ chatHistories # <<>> /\ currentChatId # Null


----------------------------------------------------------------------------
\* C13: in every state the value stored under chatHistories is the full
\* serialization of the in-memory histories, and restoring from it as the
\* startup code does yields the in-memory histories: same chats in the same
\* order, same messages, timestamps and lastUpdated equal to the originals.
C13_PersistenceRoundTrip ==
  /\ stored = JSONstringify(chatHistories)
  /\ JSONparse(stored) = chatHistories

\* C13 witness: updateChatHistory has just stored a chat whose dates are not
\* the epoch, next to an older chat.
C13_Witness ==
  /\ lastOp.op = "succeed"
  /\ Len(chatHistories) >= 2
  /\ chatHistories[1].lastUpdated = Date(1)
  /\ \E j \in 1..Len(chatHistories[1].messages) :
        chatHistories[1].messages[j].timestamp = Date(1)
  /\ JSONparse(stored) = chatHistories


----------------------------------------------------------------------------
\* Startup: the useState initializers of useChat, for any stored value

\* localStorage.getItem('chatHistories') when the key is absent: null
NoItem == <<[absent |-> TRUE]>>

\* a stored empty text
EmptyItem == <<[text |-> ""]>>

\* a stored text that is not JSON
CorruptItem == <<[text |-> "[{id:"]>>

\* the stored texts that JSON.parse accepts: serialized histories
IsJSON(item) == \A i \in 1..Len(item) : "id" \in DOMAIN item[i]

\* the chatHistories initializer: stored ? JSON.parse(stored, reviver) : []
InitialHistories(item) ==
  IF item \in { NoItem, EmptyItem } THEN [value |-> <<>>]
  ELSE IF ~IsJSON(item) THEN [throws |-> "SyntaxError"]
  ELSE [value |-> JSONparse(item)]

\* before the first render, for each stored value
InitStartup ==
  /\ stored \in { NoItem, EmptyItem, CorruptItem, JSONstringify(<<StoredChat>>) }
  /\ chatHistories = <<>>
  /\ currentChatId = Null
  /\ messages = <<>>
  /\ inputValue = ""
  /\ isLoading = FALSE
  /\ inflight = {}
  /\ now = 0
  /\ sends = 0
  /\ requests = 0
  /\ lastOp = [op |-> "boot"]

\* the first render of useChat; an exception thrown by an initializer
\* unmounts the application (nothing catches it)
useChat ==
  /\ lastOp.op = "boot"
  /\ LET initial == InitialHistories(stored)
     IN  IF "throws" \in DOMAIN initial
         THEN /\ lastOp' = [op |-> "useChat", item |-> stored, failed |-> TRUE]
              /\ UNCHANGED <<progVars, now, sends, requests>>
         ELSE /\ chatHistories' = initial.value
              /\ stored' = JSONstringify(chatHistories')
              /\ currentChatId' = Null
              /\ messages' = <<>>
              /\ lastOp' = [op |-> "useChat", item |-> stored, failed |-> FALSE]
              /\ UNCHANGED <<inputValue, isLoading, inflight, now, sends, requests>>

\* the application is rendered and handles events
Mounted ==
  /\ lastOp.op # "boot"
  /\ lastOp.op = "useChat" => ~lastOp.failed

NextStartup ==
  \/ useChat
  \/ Mounted /\ Next

SpecStartup == InitStartup /\ [][NextStartup]_vars

\* C14: startup with a missing or a corrupt stored value does not fail and
\* leaves an empty histories collection, an empty buffer and no active chat.
C14_StartupNeverFails ==
  (lastOp.op = "useChat" /\ lastOp.item \in { NoItem, CorruptItem }) =>
     /\ ~lastOp.failed
     /\ chatHistories = <<>>
     /\ messages = <<>>
     /\ currentChatId = Null


----------------------------------------------------------------------------
\* sendQueryToAPI on its own: every outcome of fetch

\* JSON objects: d with field k set to v
Extend(d, k, v) == [f \in DOMAIN d \cup {k} |-> IF f = k THEN v ELSE d[f]]

\* S, and every object of S with field k set to one of vals
WithField(S, k, vals) == S \cup { Extend(d, k, v) : d \in S, v \in vals }

\* the object {}
EmptyObject == [f \in {} |-> TRUE]

\* JSON objects a server can send: each field absent, falsy or set
ServerObjects ==
  WithField(WithField(WithField(WithField({EmptyObject},
    "response", {"", "Hi there!"}),
    "intent", {"", "billing"}),
    "confidence", {0, 1}),
    "detail", {"", "Bad request"})

\* response bodies: text that is not JSON, the JSON value null, JSON objects
Bodies ==
  { [kind |-> "malformed"] } \cup
  { [kind |-> "json", value |-> v] : v \in {Null} \cup ServerObjects }

Statuses == { 200, 404, 500 }

\* what fetch can do: reject, or resolve with a status and a body
FetchOutcomes ==
  { [rejects |-> "Failed to fetch"] } \cup
  { [status |-> s, body |-> b] : s \in Statuses, b \in Bodies }

\* Response.ok
ok(status) == status \in 200..299

\* { ...data, <the defaulted fields> }
Spread(data, fields) ==
  [k \in DOMAIN data \cup DOMAIN fields |->
     IF k \in DOMAIN fields THEN fields[k] ELSE data[k]]

\* sendQueryToAPI, from the outcome of fetch and the instant of the call:
\* the error it throws or the object it returns
sendQueryToAPI(outcome, t) ==
  IF "rejects" \in DOMAIN outcome THEN [throws |-> outcome.rejects]
  ELSE IF ~ok(outcome.status)
  THEN LET errorData == IF outcome.body.kind = "malformed"
                        THEN EmptyObject ELSE outcome.body.value
       IN  IF errorData = Null
           THEN [throws |-> "Cannot read properties of null (reading 'detail')"]
           ELSE IF "detail" \in DOMAIN errorData /\ errorData.detail # ""
           THEN [throws |-> errorData.detail]
           ELSE [throws |-> "API request failed: " \o ToString(outcome.status)]
  ELSE IF outcome.body.kind = "malformed"
  THEN [throws |-> "Unexpected token in JSON"]
  ELSE LET data == outcome.body.value
       IN  IF data = Null
           THEN [throws |-> "Cannot read properties of null (reading 'intent')"]
           ELSE [returns |-> Spread(data, Normalize(data, t))]

InitQuery ==
  /\ chatHistories = <<>>
  /\ currentChatId = Null
  /\ messages = <<>>
  /\ stored = JSONstringify(<<>>)
  /\ inputValue = ""
  /\ isLoading = FALSE
  /\ inflight = {}
  /\ now \in 0..MaxTime
  /\ sends = 0
  /\ requests = 0
  /\ lastOp \in { [op |-> "fetch", outcome |-> o] : o \in FetchOutcomes }

\* one call of sendQueryToAPI settles
sendQueryToAPICall ==
  /\ lastOp.op = "fetch"
  /\ lastOp' = [op |-> "sendQueryToAPI", outcome |-> lastOp.outcome,
                result |-> sendQueryToAPI(lastOp.outcome, now)]
  /\ UNCHANGED <<progVars, now, sends, requests>>

NextQuery == sendQueryToAPICall

SpecQuery == InitQuery /\ [][NextQuery]_vars

\* the fields a returned object must have
ResponseFields ==
  { "intent", "confidence", "response", "sources", "action_invoked", "timestamp" }

\* C15: sendQueryToAPI either throws or returns a fully populated object.
\* A rejected fetch and a malformed body throw; a non-success status throws
\* with the server's detail when there is one and with a message holding the
\* status code otherwise; a success status with a JSON object returns an
\* object with every response field.
C15_TwoOutcomes ==
  lastOp.op = "sendQueryToAPI" =>
    LET outcome == lastOp.outcome
        result  == lastOp.result
        thrown  == "throws" \in DOMAIN result
        body    == outcome.body
        object  == body.kind = "json" /\ body.value # Null
        detailed == object /\ "detail" \in DOMAIN body.value /\ body.value.detail # ""
    IN  /\ DOMAIN result \in { {"throws"}, {"returns"} }
        /\ ~thrown => ResponseFields \subseteq DOMAIN result.returns
        /\ "rejects" \in DOMAIN outcome => thrown
        /\ "status" \in DOMAIN outcome =>
             /\ body.kind = "malformed" => thrown
             /\ ~ok(outcome.status) =>
                  /\ thrown
                  /\ result.throws =
                       IF detailed THEN body.value.detail
                       ELSE "API request failed: " \o ToString(outcome.status)
             /\ (ok(outcome.status) /\ object) => ~thrown


\* the default of each response field at instant t
Defaults(t) ==
  [intent |-> "general_query", confidence |-> 0, response |-> FallbackResponse,
   sources |-> <<>>, action_invoked |-> "null", timestamp |-> toISOString(Date(t))]

\* C16: a returned object has the server's value for every field the server
\* supplied and the default for every response field it did not supply; so
\* the body {response: "Hi there!"} gives an assistant message with content
\* "Hi there!", intent general_query, confidence 0 and no sources.
C16_DefaultsOnlyForMissing ==
  (lastOp.op = "sendQueryToAPI" /\ "returns" \in DOMAIN lastOp.result) =>
    LET data     == lastOp.outcome.body.value
        returned == lastOp.result.returns
        message  == AssistantMessage(returned, now)
    IN  /\ \A k \in DOMAIN data : returned[k] = data[k]
        /\ \A k \in ResponseFields \ DOMAIN data : returned[k] = Defaults(now)[k]
        /\ data = [response |-> "Hi there!"] =>
             /\ message.content = "Hi there!"
             /\ message.intent = "general_query"
             /\ message.confidence = 0
             /\ message.sources = <<>>


----------------------------------------------------------------------------
\* C17: the number of requests issued always equals the number of accepted
\* sends, and a request is issued only by a step that is an accepted
\* sendMessage, one per step: a failure (or any other step) issues none.
C17_OneRequestPerSend ==
  /\ [](requests = sends)
  /\ [][ requests' # requests =>
           /\ sendMessage
           /\ lastOp' = [op |-> "sendMessage", accepted |-> TRUE]
           /\ requests' = requests + 1
       ]_vars

\* C17 witness: a second send has been accepted after the first one failed,
\* and that one has failed too.
C17_Witness ==
  /\ lastOp.op = "fail"
  /\ sends = 2
  /\ requests = 2
  /\ inflight = {}
  /\ chatHistories = <<>>


----------------------------------------------------------------------------
\* C18: whenever updateChatHistory rewrites an existing ChatHistory, the
\* messages the entry had are a prefix of the messages it has afterwards.
C18_AppendOnly ==
  [][ \A r \in inflight : \A data \in ServerResponses :
        (Succeed(r, data) /\ r.currentChatId # Null) =>
          \A i \in IndicesOf(chatHistories, r.currentChatId) :
            IsPrefix(chatHistories[i].messages, chatHistories'[i].messages)
    ]_vars


----------------------------------------------------------------------------
\* Every network call eventually settles

\* the request of some suspended sendMessage settles
Settle ==
  \E r \in inflight : Fail(r) \/ \E data \in ServerResponses : Succeed(r, data)

FairSpec == Spec /\ WF_vars(Settle)

\* C19: isLoading is set exactly while a request is in flight, and, every
\* request settling eventually, a busy system always becomes idle again.
C19_BusyTracksRequest ==
  /\ [](isLoading <=> inflight # {})
  /\ (isLoading ~> (~isLoading /\ inflight = {}))

\* C19 witness: idle again after a second exchange, the first having failed.
C19_Witness ==
  /\ lastOp.op = "succeed"
  /\ sends = 2
  /\ Len(chatHistories) = 1
  /\ ~isLoading
  /\ inflight = {}


----------------------------------------------------------------------------
\* A clock with one more reading: three exchanges at three different instants

\* the clock advances once past MaxTime
TickLate ==
  /\ now = MaxTime
  /\ now' = now + 1
  /\ UNCHANGED <<progVars, sends, requests, lastOp>>

NextLate ==
  \/ Next
  \/ TickLate

SpecLate == Init /\ [][NextLate]_vars

\* C20: the histories list is ordered by non-increasing lastUpdated, and a
\* chat created by updateChatHistory is put at the front of the list.
C20_MostRecentFirst ==
  /\ \A i \in 1..Len(chatHistories) : \A j \in 1..Len(chatHistories) :
       i < j => chatHistories[i].lastUpdated.ms >= chatHistories[j].lastUpdated.ms
  /\ (lastOp.op = "succeed" /\ lastOp.created) =>
       /\ chatHistories # <<>>
       /\ chatHistories[1].id = currentChatId

====
